---- MODULE Spec2Model ----
(***************************************************************************)
(* The inference bridge of src/python/helper.py: a loop that reads one     *)
(* line from standard input, asks the jedi engine to infer the symbol at a *)
(* position, and writes one JSON line to standard output.                  *)
(*                                                                         *)
(* Text is a sequence of chunks.  A chunk is one character of payload      *)
(* ("a", "\n", "\"") or one literal piece of JSON syntax that json.dumps   *)
(* emits ("{", ": ", ", ", "null", a key name).  The newline character is  *)
(* the chunk "\n"; its JSON escape is the two-character chunk "\\n".       *)
(***************************************************************************)
EXTENDS Naturals, Sequences, FiniteSets

\* Bounds of the model.
MaxLines == 2       \* lines the caller sends in one run
MaxCands == 2       \* longest candidate list the engine returns

(***************************************************************************)
(* Python values.  Every value has the same three fields so that values of *)
(* different types can be compared.                                        *)
(***************************************************************************)
None == [t |-> "NoneType", s |-> <<>>, items |-> <<>>]
Str(s) == [t |-> "str", s |-> s, items |-> <<>>]
Int(n) == [t |-> "int", s |-> <<n>>, items |-> <<>>]
List == [t |-> "list", s |-> <<>>, items |-> <<>>]
\* an object json.dumps cannot serialize
Obj == [t |-> "object", s |-> <<>>, items |-> <<>>]
\* a dict, as its items in insertion order
Dict(items) == [t |-> "dict", s |-> <<>>, items |-> items]

\* The outcome of evaluating an expression: a value, or an exception whose
\* str() is msg.
Ok(v) == [exc |-> FALSE, val |-> v, msg |-> <<>>]
Raise(m) == [exc |-> TRUE, val |-> None, msg |-> m]

(***************************************************************************)
(* Input lines.  json.loads is library code: a line is modelled by what    *)
(* its text denotes, not by its characters.                                *)
(***************************************************************************)
Keys == <<"source", "path", "line", "column">>
Attrs == <<"name", "full_name", "type", "docstring", "module_name">>

\* the value a request carries under each key
FieldValue(key) ==
  CASE key = "source" -> Str(<<"x">>)
    [] key = "path" -> Str(<<"a", ".", "p", "y">>)
    [] key = "line" -> Int("1")
    [] key = "column" -> Int("0")

\* the JSON object holding the keys of Keys that are in present, in order
RequestObject(present) ==
  LET kept == SelectSeq(Keys, LAMBDA k : k \in present)
  IN Dict([i \in 1..Len(kept) |-> <<kept[i], FieldValue(kept[i])>>])

\* the JSON object holding under each key of present its value in vals
Request(vals, present) ==
  LET kept == SelectSeq(Keys, LAMBDA k : k \in present)
  IN Dict([i \in 1..Len(kept) |-> <<kept[i], vals[kept[i]]>>])

\* the values of the request of FieldValue, and those of another request
FieldValues == [key \in {"source", "path", "line", "column"} |-> FieldValue(key)]
OtherValues ==
  [source |-> Str(<<"y">>), path |-> Str(<<"b", ".", "p", "y">>),
   line |-> Int("2"), column |-> Int("3")]

NotJson == [k |-> "notjson", v |-> None]    \* text that is not JSON
Blank == [k |-> "blank", v |-> None]        \* a line terminator only
Json(v) == [k |-> "json", v |-> v]          \* the JSON text of v
\* bytes that the decoder of sys.stdin rejects
Undecodable == [k |-> "undecodable", v |-> None]

KeySet == {Keys[i] : i \in 1..Len(Keys)}
WellFormedLines == {Json(RequestObject(KeySet))}
MalformedLines ==
  {NotJson, Blank, Json(List), Json(None), Json(Str(<<"a">>)), Json(Int("1"))}
    \cup {Json(RequestObject(KeySet \ {k})) : k \in KeySet}
Lines == WellFormedLines \cup MalformedLines

\* requests with all four keys whose values are not what the engine expects:
\* a column that is null, a line that is a string, a line past the end of
\* the one-line source
IllTypedLines ==
  {Json(Request([FieldValues EXCEPT !.column = None], {"source", "path", "line", "column"})),
   Json(Request([FieldValues EXCEPT !.line = Str(<<"1">>)], {"source", "path", "line", "column"}))}
OutOfRangeLines ==
  {Json(Request([FieldValues EXCEPT !.line = Int("9")], {"source", "path", "line", "column"}))}
\* two requests that differ in every value, and one that stops half-way
\* through the extraction of its fields
RequestLines ==
  {Json(Request(FieldValues, {"source", "path", "line", "column"})),
   Json(Request(OtherValues, {"source", "path", "line", "column"})),
   Json(Request(OtherValues, {"source", "path", "line"}))}
    \cup IllTypedLines \cup OutOfRangeLines

\* json.loads(line)
JsonLoads(ln) ==
  CASE ln.k = "notjson" -> Raise(<<"Expecting value: line 1 column 1 (char 0)">>)
    [] ln.k = "blank" -> Raise(<<"Expecting value: line 2 column 1 (char 1)">>)
    [] ln.k = "json" -> Ok(ln.v)

\* obj.get(key) in place of obj[key]: a missing key reads as None
GetItemDefault(obj, key) ==
  CASE obj.t = "dict" ->
         LET hits == SelectSeq(obj.items, LAMBDA it : it[1] = key)
         IN IF hits = <<>> THEN Ok(None) ELSE Ok(hits[Len(hits)][2])
    [] obj.t = "list" -> Raise(<<"list indices must be integers or slices, not str">>)
    [] obj.t = "str" -> Raise(<<"string indices must be integers, not 'str'">>)
    [] OTHER -> Raise(<<"'", obj.t, "' object is not subscriptable">>)

\* obj[key] with a str key
GetItem(obj, key) ==
  CASE obj.t = "dict" ->
         LET hits == SelectSeq(obj.items, LAMBDA it : it[1] = key)
         IN IF hits = <<>> THEN Raise(<<"'", key, "'">>) ELSE Ok(hits[Len(hits)][2])
    [] obj.t = "list" -> Raise(<<"list indices must be integers or slices, not str">>)
    [] obj.t = "str" -> Raise(<<"string indices must be integers, not 'str'">>)
    [] OTHER -> Raise(<<"'", obj.t, "' object is not subscriptable">>)

(***************************************************************************)
(* The engine (jedi) is a black box: each call either raises or returns.   *)
(* A candidate is the outcome of reading each of its five attributes.      *)
(***************************************************************************)
Good1 ==
  [name |-> Ok(Str(<<"o", "s">>)), full_name |-> Ok(Str(<<"o", "s">>)),
   type |-> Ok(Str(<<"m">>)), docstring |-> Ok(Str(<<"d", "\n", "\"", "\\">>)),
   module_name |-> Ok(Str(<<"o", "s">>))]
Good2 ==
  [name |-> Ok(Str(<<"f">>)), full_name |-> Ok(None),
   type |-> Ok(Str(<<"f", "n">>)), docstring |-> Ok(Str(<<>>)),
   module_name |-> Ok(None)]
\* reading attribute a raises
AttrRaises(a) == [Good1 EXCEPT ![a] = Raise(<<"n", "o", " ", a>>)]
\* an attribute holds a value json.dumps rejects
Unserializable == [Good1 EXCEPT !.full_name = Ok(Obj)]
FirstCandidates ==
  {Good1, Good2, Unserializable}
    \cup {AttrRaises(Attrs[i]) : i \in 1..Len(Attrs)}
\* the later candidates of a list differ from the first in every attribute
Alt(c) == IF c = Good2 THEN Good1 ELSE Good2
\* the first candidates that lists of several candidates are built on
ManyFirst == {Good1, Good2, AttrRaises("docstring")}
CandidateLists ==
  {<<>>}
    \cup {<<c>> : c \in FirstCandidates}
    \cup {[i \in 1..n |-> IF i = 1 THEN c ELSE Alt(c)] : c \in ManyFirst, n \in 2..MaxCands}

ScriptRaises == [k |-> "script_raises", msg |-> <<>>, cands |-> <<>>]
InferRaises == [k |-> "infer_raises", msg |-> <<"b", "a", "d", "\n", "l", "i", "n", "e">>, cands |-> <<>>]
Returns(cands) == [k |-> "returns", msg |-> <<>>, cands |-> cands]
NotCalled == [k |-> "not_called", msg |-> <<>>, cands |-> <<>>]
EngineOutcomes == {ScriptRaises, InferRaises} \cup {Returns(cs) : cs \in CandidateLists}
\* one outcome of each kind
SomeOutcomes == {ScriptRaises, InferRaises, Returns(<<>>), Returns(<<Good1>>)}

(***************************************************************************)
(* json.dumps with its default arguments: no indentation, ", " and ": "    *)
(* separators, and every control character, quote and backslash of a       *)
(* string escaped.                                                         *)
(***************************************************************************)
\* no escaping
EscapeNothing(c) == c

Escape(c) ==
  CASE c = "\n" -> "\\n"
    [] c = "\"" -> "\\\""
    [] c = "\\" -> "\\\\"
    [] OTHER -> c

DumpsStr(s) == <<"\"">> \o [i \in 1..Len(s) |-> Escape(s[i])] \o <<"\"">>

DumpsScalar(v) ==
  CASE v.t = "NoneType" -> <<"null">>
    [] v.t = "str" -> DumpsStr(v.s)
    [] v.t = "int" -> v.s
    [] v.t = "list" -> <<"[", "]">>

RECURSIVE DumpsItems(_)
DumpsItems(items) ==
  IF items = <<>> THEN <<>>
  ELSE DumpsStr(<<items[1][1]>>) \o <<": ">> \o DumpsScalar(items[1][2])
         \o (IF Len(items) > 1 THEN <<", ">> ELSE <<>>) \o DumpsItems(Tail(items))

Serializable(v) ==
  /\ v.t # "object"
  /\ \A i \in 1..Len(v.items) : v.items[i][2].t # "object"

\* json.dumps(v): the text, or TypeError
Dumps(v) ==
  IF ~Serializable(v)
    THEN [exc |-> TRUE, text |-> <<>>,
          msg |-> <<"Object of type ", "object", " is not JSON serializable">>]
    ELSE [exc |-> FALSE, msg |-> <<>>,
          text |-> IF v.t = "dict" THEN <<"{">> \o DumpsItems(v.items) \o <<"}">>
                   ELSE DumpsScalar(v)]

(***************************************************************************)
(* The body of the try block up to the argument of the write: what one     *)
(* iteration computes from the line it read and the engine's outcome.      *)
(***************************************************************************)
\* an exception left the try body; lineVar is what the variable line holds
Failed(msg, calls, lineVar) ==
  [exc |-> TRUE, msg |-> msg, result |-> None, text |-> <<>>, calls |-> calls,
   lineVar |-> lineVar]
Computed(result, text, calls, lineVar) ==
  [exc |-> FALSE, msg |-> <<>>, result |-> result, text |-> text, calls |-> calls,
   lineVar |-> lineVar]

\* the variable line after line = request['line']
PyValue(v) == [k |-> "pyvalue", v |-> v]

\* inference[-1]
Last(inference) == inference[Len(inference)]

\* inference[0]
First(inference) == inference[1]

\* exceptions of attribute reads swallowed
RaisingIgnored(inference) == <<>>

\* the attributes of the result, in the order the dict display reads them
\* that raise when read
Raising(inference) == SelectSeq(Attrs, LAMBDA a : First(inference)[a].exc)

\* an empty object in place of None
BuildResultEmptyObject(inference) ==
  IF inference # <<>>
    THEN Dict([i \in 1..Len(Attrs) |-> <<Attrs[i], First(inference)[Attrs[i]].val>>])
    ELSE Dict(<<>>)

\* the if statement that builds result from a list whose attributes read
BuildResult(inference) ==
  IF inference # <<>>
    THEN Dict([i \in 1..Len(Attrs) |-> <<Attrs[i], First(inference)[Attrs[i]].val>>])
    ELSE None

\* a variable no assignment has reached
Unassigned == [t |-> "unassigned", s |-> <<>>, items |-> <<>>]

\* the assignments keeping a value that is already bound
AssignedIfUnbound(ln, old) ==
  LET request == JsonLoads(ln)
      source == GetItem(request.val, "source")
      path == GetItem(request.val, "path")
      line1 == GetItem(request.val, "line")
      column == GetItem(request.val, "column")
      keep(name, new) == IF old[name] = Unassigned THEN new ELSE old[name]
  IN IF request.exc \/ source.exc THEN old
     ELSE IF path.exc THEN [old EXCEPT !.source = keep("source", source.val)]
     ELSE IF line1.exc \/ column.exc
       THEN [old EXCEPT !.source = keep("source", source.val),
                        !.path = keep("path", path.val)]
     ELSE [source |-> keep("source", source.val), path |-> keep("path", path.val),
           column |-> keep("column", column.val)]

\* source, path and column after the assignments of the try block that the
\* line ln reaches, old being their values before
Assigned(ln, old) ==
  LET request == JsonLoads(ln)
      source == GetItem(request.val, "source")
      path == GetItem(request.val, "path")
      line1 == GetItem(request.val, "line")
      column == GetItem(request.val, "column")
  IN IF request.exc \/ source.exc THEN old
     ELSE IF path.exc THEN [old EXCEPT !.source = source.val]
     ELSE IF line1.exc \/ column.exc
       THEN [old EXCEPT !.source = source.val, !.path = path.val]
     ELSE [source |-> source.val, path |-> path.val, column |-> column.val]

\* old holds source, path and column as the iteration before left them; the
\* engine is called with what the variables hold after this iteration's
\* assignments
TryBody(ln, eng, old) ==
  LET request == JsonLoads(ln)
      source == GetItem(request.val, "source")
      path == GetItem(request.val, "path")
      line1 == GetItem(request.val, "line")
      column == GetItem(request.val, "column")
      newLine == PyValue(line1.val)
      env == Assigned(ln, old)
      script == <<[f |-> "Script", args |-> <<env.source, env.path>>]>>
      infer == script \o <<[f |-> "infer", args |-> <<newLine.v, env.column>>]>>
      inference == eng.cands
      raising == Raising(inference)
      result == BuildResult(inference)
      dumped == Dumps(result)
  IN IF request.exc THEN Failed(request.msg, <<>>, ln)
     ELSE IF source.exc THEN Failed(source.msg, <<>>, ln)
     ELSE IF path.exc THEN Failed(path.msg, <<>>, ln)
     ELSE IF line1.exc THEN Failed(line1.msg, <<>>, ln)
     ELSE IF column.exc THEN Failed(column.msg, <<>>, newLine)
     ELSE IF eng.k = "script_raises" THEN Failed(eng.msg, script, newLine)
     ELSE IF eng.k = "infer_raises" THEN Failed(eng.msg, infer, newLine)
     ELSE IF inference # <<>> /\ raising # <<>>
       THEN Failed(First(inference)[raising[1]].msg, infer, newLine)
     ELSE IF dumped.exc THEN Failed(dumped.msg, infer, newLine)
     ELSE Computed(result, dumped.text \o <<"\n">>, infer, newLine)

\* the line terminator forgotten
ErrorLineNoNewline(msg) == Dumps(Dict(<<<<"error", Str(msg)>>>>)).text

\* the argument of the write of the except clause
ErrorLine(msg) == Dumps(Dict(<<<<"error", Str(msg)>>>>)).text \o <<"\n">>

(***************************************************************************)
(* Standard output: write appends to the stream's buffer, flush hands the  *)
(* buffer to the caller.  On a pipe whose reading end is gone the flush    *)
(* raises BrokenPipeError and the buffer keeps its text.                   *)
(***************************************************************************)
BrokenPipe == <<"[Errno 32] Broken pipe">>

Write(buf, text) == buf \o text

\* a flush that leaves the text in the buffer
FlushLazy(buf, broken) == [exc |-> FALSE, buf |-> buf, emitted |-> <<>>]

Flush(buf, broken) ==
  IF broken THEN [exc |-> TRUE, buf |-> buf, emitted |-> <<>>]
  ELSE [exc |-> FALSE, buf |-> <<>>, emitted |-> buf]

\* the except clause without its flush
ExceptNoFlush(buf, msg, broken) ==
  [buf |-> Write(buf, ErrorLine(msg)), emitted |-> <<>>, handled |-> TRUE,
   escaped |-> FALSE, written |-> ErrorLine(msg)]

\* the except clause raising again after it reported
ExceptReraises(buf, msg, broken) ==
  LET f == Flush(Write(buf, ErrorLine(msg)), broken)
  IN [buf |-> f.buf, emitted |-> f.emitted, handled |-> TRUE, escaped |-> TRUE,
      written |-> ErrorLine(msg)]

\* the except clause reporting the failure a second time
ExceptReportsTwice(buf, msg, broken) ==
  LET f == Flush(Write(Write(buf, ErrorLine(msg)), ErrorLine(msg)), broken)
  IN [buf |-> f.buf, emitted |-> f.emitted, handled |-> TRUE, escaped |-> f.exc,
      written |-> ErrorLine(msg) \o ErrorLine(msg)]

\* the except clause: write the error line, flush; an exception raised here
\* leaves the loop
Except(buf, msg, broken) ==
  LET f == Flush(Write(buf, ErrorLine(msg)), broken)
  IN [buf |-> f.buf, emitted |-> f.emitted, handled |-> TRUE, escaped |-> f.exc,
      written |-> ErrorLine(msg)]

\* the write and the flush that end the try block, and the except clause
\* when r or the flush raised
Respond(r, buf, broken) ==
  IF r.exc THEN Except(buf, r.msg, broken)
  ELSE LET f == Flush(Write(buf, r.text), broken)
       IN IF f.exc
            THEN [Except(f.buf, BrokenPipe, broken) EXCEPT
                    !.written = r.text \o ErrorLine(BrokenPipe)]
            ELSE [buf |-> f.buf, emitted |-> f.emitted, handled |-> FALSE,
                  escaped |-> FALSE, written |-> r.text]

\* the number of line terminators in text: the complete lines a caller
\* that reads line by line finds in it
NewlineCount(text) == Cardinality({i \in 1..Len(text) : text[i] = "\n"})

(***************************************************************************)
(* The state.                                                              *)
(***************************************************************************)
VARIABLES
  stdin,          \* lines the caller has written and the bridge has not read
  stdinClosed,    \* the caller has closed its end of the input stream
  stdoutBroken,   \* the caller has closed its end of the output stream
  pc,             \* "Reading": in readline; "Processing": after it; "Stopped"
  status,         \* "running", or how the process ended: "success", "error"
  line,           \* the variable line
  outbuf,         \* text written to sys.stdout and not flushed
  stdout,         \* text the caller can read
  sent,           \* the lines the caller has written, in order
  log,            \* one record per completed iteration that read a line
  names,          \* the variables source, path and column
  partial         \* the last line the caller wrote has no terminator

vars == <<stdin, stdinClosed, stdoutBroken, pc, status, line, outbuf, stdout, sent, log,
          names, partial>>

Unbound == [k |-> "unbound", v |-> None]
EmptyStr == [k |-> "empty", v |-> None]     \* '' : readline at end of stream

Init ==
  /\ stdin = <<>>
  /\ stdinClosed = FALSE
  /\ stdoutBroken = FALSE
  /\ pc = "Reading"
  /\ status = "running"
  /\ line = Unbound
  /\ outbuf = <<>>
  /\ stdout = <<>>
  /\ sent = <<>>
  /\ log = <<>>
  /\ names = [source |-> Unassigned, path |-> Unassigned, column |-> Unassigned]
  /\ partial = FALSE

\* the caller writes one line of L, with its terminator
SendFrom(L) ==
  /\ ~stdinClosed
  /\ ~partial
  /\ Len(sent) < MaxLines
  /\ \E ln \in L :
       /\ stdin' = Append(stdin, ln)
       /\ sent' = Append(sent, ln)
  /\ UNCHANGED <<stdinClosed, stdoutBroken, pc, status, line, outbuf, stdout, log,
                 names, partial>>

\* the caller writes one line
Send == SendFrom(Lines)

\* the caller writes the text of a line and not yet its terminator
SendPartial ==
  /\ ~stdinClosed
  /\ ~partial
  /\ Len(sent) < MaxLines
  /\ \E ln \in Lines \ {Blank} :
       /\ stdin' = Append(stdin, ln)
       /\ sent' = Append(sent, ln)
  /\ partial' = TRUE
  /\ UNCHANGED <<stdinClosed, stdoutBroken, pc, status, line, outbuf, stdout, log,
                 names>>

\* closing the stream ends the iteration in progress at once
CloseAborts ==
  /\ ~stdinClosed
  /\ stdinClosed' = TRUE
  /\ pc' = IF pc = "Processing" THEN "Stopped" ELSE pc
  /\ status' = IF pc = "Processing" THEN "success" ELSE status
  /\ line' = IF pc = "Processing" THEN EmptyStr ELSE line
  /\ UNCHANGED <<stdin, stdoutBroken, outbuf, stdout, sent, log, names, partial>>

\* the caller closes the input stream
Close ==
  /\ ~stdinClosed
  /\ stdinClosed' = TRUE
  /\ UNCHANGED <<stdin, stdoutBroken, pc, status, line, outbuf, stdout, sent, log,
                 names, partial>>

\* the caller closes the output stream
BreakStdout ==
  /\ ~stdoutBroken
  /\ status = "running"
  /\ stdoutBroken' = TRUE
  /\ UNCHANGED <<stdin, stdinClosed, pc, status, line, outbuf, stdout, sent, log,
                 names, partial>>

\* the line stripped before the test for end of stream: a blank line ends
\* the loop
ReadLineStripsBlank ==
  /\ pc = "Reading"
  /\ stdin # <<>>
  /\ Len(stdin) > 1 \/ ~partial \/ stdinClosed
  /\ line' = IF Head(stdin) = Blank THEN EmptyStr ELSE Head(stdin)
  /\ stdin' = Tail(stdin)
  /\ pc' = IF Head(stdin) = Blank THEN "Stopped" ELSE "Processing"
  /\ status' = IF Head(stdin) = Blank THEN "success" ELSE status
  /\ UNCHANGED <<stdinClosed, stdoutBroken, outbuf, stdout, sent, log, names, partial>>

\* text without a terminator at the end of the stream read as the end of
\* the stream
ReadLineDropsPartial ==
  /\ pc = "Reading"
  /\ stdin # <<>>
  /\ Len(stdin) > 1 \/ ~partial \/ stdinClosed
  /\ \E dropped \in {partial /\ Len(stdin) = 1} :
       /\ line' = IF dropped THEN EmptyStr ELSE Head(stdin)
       /\ pc' = IF dropped THEN "Stopped" ELSE "Processing"
       /\ status' = IF dropped THEN "success" ELSE status
  /\ stdin' = Tail(stdin)
  /\ UNCHANGED <<stdinClosed, stdoutBroken, outbuf, stdout, sent, log, names, partial>>

\* readline returns a line; it is not empty.  It returns text without a
\* terminator only at the end of the stream.
ReadLine ==
  /\ pc = "Reading"
  /\ stdin # <<>>
  /\ Head(stdin) # Undecodable
  /\ Len(stdin) > 1 \/ ~partial \/ stdinClosed
  /\ line' = Head(stdin)
  /\ stdin' = Tail(stdin)
  /\ pc' = "Processing"
  /\ UNCHANGED <<stdinClosed, stdoutBroken, status, outbuf, stdout, sent, log,
                 names, partial>>

\* end of stream handled as a request: an error line is written before the stop
ReadEofWrites ==
  /\ pc = "Reading"
  /\ stdin = <<>>
  /\ stdinClosed
  /\ line' = EmptyStr
  /\ pc' = "Stopped"
  /\ status' = "success"
  /\ stdout' = stdout \o ErrorLine(<<"Expecting value: line 1 column 1 (char 0)">>)
  /\ UNCHANGED <<stdin, stdinClosed, stdoutBroken, outbuf, sent, log,
                 names, partial>>

\* readline raises UnicodeDecodeError: the stream decodes what it took from
\* the pipe in one piece, the first n lines queued, and one of them is not
\* text.  The piece is lost, line keeps its value, and the except clause
\* reports the error.
ReadRaises ==
  /\ pc = "Reading"
  /\ \E n \in 1..Len(stdin) :
       /\ \E i \in 1..n : stdin[i] = Undecodable
       /\ stdin' = SubSeq(stdin, n + 1, Len(stdin))
  /\ \E w \in {Except(outbuf, <<"'utf-8' codec can't decode byte">>, stdoutBroken)} :
       /\ outbuf' = w.buf
       /\ stdout' = stdout \o w.emitted
       /\ pc' = IF w.escaped THEN "Stopped" ELSE "Reading"
       /\ status' = IF w.escaped THEN "error" ELSE status
       /\ log' = Append(log,
                   [line |-> Undecodable,
                    eng |-> NotCalled,
                    calls |-> <<>>,
                    raised |-> TRUE,
                    result |-> None,
                    handled |-> w.handled,
                    escaped |-> w.escaped,
                    written |-> w.written])
  /\ UNCHANGED <<stdinClosed, stdoutBroken, line, sent, names, partial>>

\* continue in place of break: the loop reads again at end of stream
ReadEofContinues ==
  /\ pc = "Reading"
  /\ stdin = <<>>
  /\ stdinClosed
  /\ line' = EmptyStr
  /\ UNCHANGED <<stdin, stdinClosed, stdoutBroken, pc, status, outbuf, stdout, sent, log,
                 names, partial>>

\* readline returns '' at end of stream; break; the script ends
ReadEof ==
  /\ pc = "Reading"
  /\ stdin = <<>>
  /\ stdinClosed
  /\ line' = EmptyStr
  /\ pc' = "Stopped"
  /\ status' = "success"
  /\ UNCHANGED <<stdin, stdinClosed, stdoutBroken, outbuf, stdout, sent, log,
                 names, partial>>

\* the rest of the iteration, with the engine's outcome, one of E
ProcessWith(E) ==
  /\ pc = "Processing"
  /\ \E eng \in E :
       \E r \in {TryBody(line, eng, names)} :
         \E w \in {Respond(r, outbuf, stdoutBroken)} :
           /\ line' = r.lineVar
           /\ outbuf' = w.buf
           /\ stdout' = stdout \o w.emitted
           /\ pc' = IF w.escaped THEN "Stopped" ELSE "Reading"
           /\ status' = IF w.escaped THEN "error" ELSE status
           /\ log' = Append(log,
                       [line |-> line,
                        eng |-> IF r.calls = <<>> THEN NotCalled ELSE eng,
                        calls |-> r.calls,
                        raised |-> r.exc,
                        result |-> r.result,
                        handled |-> w.handled,
                        escaped |-> w.escaped,
                        written |-> w.written])
  /\ names' = Assigned(line, names)
  /\ UNCHANGED <<stdin, stdinClosed, stdoutBroken, sent, partial>>

\* the rest of the iteration, with the engine's outcome
Process == ProcessWith(EngineOutcomes)

Next == Send \/ Close \/ ReadLine \/ ReadEof \/ Process
Spec == Init /\ [][Next]_vars

\* the same program with a caller whose lines are requests with all or most
\* of their fields
NextRequests ==
  SendFrom(RequestLines) \/ Close \/ ReadLine \/ ReadEof \/ ProcessWith(SomeOutcomes)
SpecRequests == Init /\ [][NextRequests]_vars

\* the bridge is a running process and every call to the engine returns or
\* raises: a step of the loop that can be taken is taken
NextFair == Send \/ Close \/ ReadLine \/ ReadEof \/ ProcessWith(SomeOutcomes)
SpecFair ==
  /\ Init /\ [][NextFair]_vars
  /\ WF_vars(ReadLine) /\ WF_vars(ReadEof) /\ WF_vars(ProcessWith(SomeOutcomes))

\* the caller writes a line once it has read a complete response line for
\* every line it wrote before
SendSync == NewlineCount(stdout) = Len(sent) /\ Send

\* the same program with a synchronous caller
NextSync == SendSync \/ Close \/ ReadLine \/ ReadEof \/ Process
SpecSync == Init /\ [][NextSync]_vars

\* the caller writes the terminator of the text it wrote last
EndLine ==
  /\ partial
  /\ ~stdinClosed
  /\ partial' = FALSE
  /\ UNCHANGED <<stdin, stdinClosed, stdoutBroken, pc, status, line, outbuf, stdout,
                 sent, log, names>>

\* the same program with a caller that may write a line in two parts, or
\* close the stream after text without a terminator
NextPartial == Next \/ SendPartial \/ EndLine
SpecPartial == Init /\ [][NextPartial]_vars

\* the caller closes stdin while a request is being processed
CloseInProcessing == pc = "Processing" /\ Close

\* the same program with a caller that closes stdin only while a request is
\* being processed
NextClose == Send \/ CloseInProcessing \/ ReadLine \/ ReadEof \/ Process
SpecClose == Init /\ [][NextClose]_vars

\* the same program with a caller that may close the output stream and may
\* write bytes that are not text
NextIO == Next \/ BreakStdout \/ SendFrom({Undecodable}) \/ ReadRaises
SpecIO == Init /\ [][NextIO]_vars

TypeOK ==
  /\ pc \in {"Reading", "Processing", "Stopped"}
  /\ status \in {"running", "success", "error"}

(***************************************************************************)
(* What the caller reads.  The properties below are stated on the text of  *)
(* stdout, cut into lines and decoded as JSON, and on the log.             *)
(***************************************************************************)
\* the pieces of text between the chunks equal to sep
Split(text, sep) ==
  LET ps == {i \in 1..Len(text) : text[i] = sep}
      n == Cardinality(ps)
      pos(j) == IF j = 0 THEN 0
                ELSE IF j = n + 1 THEN Len(text) + 1
                ELSE CHOOSE p \in ps : Cardinality({q \in ps : q <= p}) = j
  IN [j \in 1..(n + 1) |-> SubSeq(text, pos(j - 1) + 1, pos(j) - 1)]

\* the complete lines of text, without their terminators
OutputLines(text) == LET parts == Split(text, "\n") IN SubSeq(parts, 1, Len(parts) - 1)
\* what follows the last line terminator
Partial(text) == LET parts == Split(text, "\n") IN parts[Len(parts)]

Unescape(c) ==
  CASE c = "\\n" -> "\n"
    [] c = "\\\"" -> "\""
    [] c = "\\\\" -> "\\"
    [] OTHER -> c

\* a JSON scalar read back
DecodeScalar(t) ==
  IF t = <<"null">> THEN None
  ELSE IF Len(t) >= 2 /\ t[1] = "\"" /\ t[Len(t)] = "\""
    THEN Str([i \in 1..(Len(t) - 2) |-> Unescape(t[i + 1])])
  ELSE Obj

\* one "key": value member read back
DecodeMember(t) ==
  IF Len(t) >= 5 /\ t[1] = "\"" /\ t[3] = "\"" /\ t[4] = ": "
    THEN <<t[2], DecodeScalar(SubSeq(t, 5, Len(t)))>>
  ELSE <<"?", Obj>>

\* a line of output read back: None, a dict, or Obj when it is neither
Decode(t) ==
  IF t = <<"null">> THEN None
  ELSE IF Len(t) >= 2 /\ t[1] = "{" /\ t[Len(t)] = "}"
    THEN IF Len(t) = 2 THEN Dict(<<>>)
         ELSE LET members == Split(SubSeq(t, 2, Len(t) - 1), ", ")
              IN Dict([i \in 1..Len(members) |-> DecodeMember(members[i])])
  ELSE Obj

\* the k-th response line the caller can read, decoded
Response(k) ==
  LET ls == OutputLines(stdout)
  IN IF k <= Len(ls) THEN Decode(ls[k]) ELSE Obj

IsError(v) ==
  /\ v.t = "dict"
  /\ Len(v.items) = 1
  /\ v.items[1][1] = "error"
  /\ v.items[1][2].t = "str"

\* the five-field object of candidate c
FiveFields(c) ==
  Dict(<<<<"name", c.name.val>>, <<"full_name", c.full_name.val>>,
         <<"type", c.type.val>>, <<"docstring", c.docstring.val>>,
         <<"module_name", c.module_name.val>>>>)

\* reading the five attributes of c raises nothing and json.dumps accepts them
Readable(c) ==
  \A i \in 1..Len(Attrs) : ~c[Attrs[i]].exc /\ c[Attrs[i]].val.t \in {"str", "NoneType"}

WellFormed(e) == e.line \in WellFormedLines
Malformed(e) == e.line \in MalformedLines
ReturnsSome(e) == WellFormed(e) /\ e.eng.k = "returns" /\ e.eng.cands # <<>>
ReturnsNone(e) == WellFormed(e) /\ e.eng.k = "returns" /\ e.eng.cands = <<>>
EngineRaises(e) == WellFormed(e) /\ e.eng.k \in {"script_raises", "infer_raises"}
\* some step of the iteration raises
StepRaises(e) ==
  \/ Malformed(e)
  \/ EngineRaises(e)
  \/ ReturnsSome(e) /\ ~Readable(e.eng.cands[1])

\* the response the iteration of e owes
Owed(e, v) ==
  IF StepRaises(e) THEN IsError(v)
  ELSE IF ReturnsNone(e) THEN v = None
  ELSE v = FiveFields(e.eng.cands[1])

(***************************************************************************)
(* Properties.                                                             *)
(***************************************************************************)

\* C1: the bridge writes exactly one output line per input line it has
\* finished, and the k-th output line is the response to the k-th input line:
\* the lines are read in the order sent, every completed iteration has its
\* line in stdout (none missing, none doubled, none held back, no partial
\* line), and the k-th line is the response owed to the k-th line read.
C1_OneResponsePerLineInOrder ==
  /\ Len(log) + Len(stdin) + (IF pc = "Processing" THEN 1 ELSE 0) = Len(sent)
  /\ \A k \in 1..Len(log) : log[k].line = sent[k]
  /\ Partial(stdout) = <<>>
  /\ outbuf = <<>>
  /\ \E ls \in {OutputLines(stdout)} :
       /\ Len(ls) = Len(log)
       /\ \A k \in 1..Len(log) :
            /\ ls[k] \o <<"\n">> = log[k].written
            /\ Owed(log[k], Decode(ls[k]))

\* C1 witness: two lines of different kinds answered in order
C1_Witness ==
  /\ Len(log) = 2
  /\ Malformed(log[1])
  /\ ReturnsSome(log[2]) /\ Readable(log[2].eng.cands[1])
  /\ IsError(Response(1))
  /\ Response(2) = FiveFields(log[2].eng.cands[1])

\* C2 as stated: whenever the engine returns a non-empty list for a
\* well-formed request, the response is the five-field object of the first
\* candidate.
C2_Original ==
  \A k \in 1..Len(log) :
    ReturnsSome(log[k]) => Response(k) = FiveFields(log[k].eng.cands[1])

\* C2 amended: whenever the engine returns a non-empty list for a well-formed
\* request and reading the five attributes of the first candidate and
\* serializing them raises nothing, the response is an object with exactly
\* the fields name, full_name, type, docstring, module_name, each value that
\* of the first candidate, whatever the length of the list.
C2_FirstCandidateOnly ==
  \A k \in 1..Len(log) :
    (ReturnsSome(log[k]) /\ Readable(log[k].eng.cands[1]))
      => /\ Response(k) = FiveFields(log[k].eng.cands[1])
         /\ Len(Response(k).items) = 5

\* C2 witness: a list of several candidates answered with the first
C2_Witness ==
  \E k \in 1..Len(log) :
    /\ ReturnsSome(log[k])
    /\ Len(log[k].eng.cands) >= 2
    /\ log[k].eng.cands[2] # log[k].eng.cands[1]
    /\ Response(k) = FiveFields(log[k].eng.cands[1])

\* C3: whenever the engine returns no candidate for a well-formed request,
\* the response line is the text null and nothing else.
C3_NullWhenNoCandidate ==
  \A k \in 1..Len(log) :
    ReturnsNone(log[k])
      => /\ k <= Len(OutputLines(stdout))
         /\ OutputLines(stdout)[k] = <<"null">>

\* C3 witness: an empty list answered
C3_Witness ==
  \E k \in 1..Len(log) : ReturnsNone(log[k]) /\ OutputLines(stdout)[k] = <<"null">>

\* C4: a malformed line (not JSON, JSON that is no object, an object missing
\* one of the four keys) is answered with an object whose only field is error
\* with a non-empty message, the engine is not called for it, and the loop
\* goes on reading.
C4_MalformedGivesError ==
  \A k \in 1..Len(log) :
    Malformed(log[k])
      => /\ IsError(Response(k))
         /\ Response(k).items[1][2].s # <<>>
         /\ log[k].calls = <<>>
         /\ ~log[k].escaped
         /\ status # "error"
         /\ (k = Len(log) /\ pc = "Stopped") => line = EmptyStr

\* C4 witness: a request read and answered after a malformed line
C4_Witness ==
  /\ Len(log) = 2
  /\ Malformed(log[1]) /\ log[1].line.k = "json"
  /\ IsError(Response(1))
  /\ WellFormed(log[2])

\* C5: an exception raised by the parse, the engine's construction, infer,
\* the read of an attribute of the first candidate or the serialization is
\* caught in its iteration and answered with one flushed error line; no
\* part of a result is written.
C5_ExceptionBecomesErrorLine ==
  \A k \in 1..Len(log) :
    StepRaises(log[k])
      => /\ log[k].handled /\ ~log[k].escaped
         /\ IsError(Response(k))
         /\ NewlineCount(log[k].written) = 1
         /\ EngineRaises(log[k]) => Response(k).items[1][2].s = log[k].eng.msg
         /\ outbuf = <<>>

\* C5 witness: the read of the last attribute raises after four were read
C5_Witness ==
  \E k \in 1..Len(log) :
    /\ ReturnsSome(log[k])
    /\ log[k].eng.cands[1].module_name.exc
    /\ IsError(Response(k))

\* C6: failures are isolated: after failing requests the loop has not
\* stopped for them, and a later request that does not itself fail gets its
\* normal response, null or the five fields.
C6_FailuresIsolated ==
  /\ (\E j \in 1..Len(log) : StepRaises(log[j]))
       => /\ status # "error"
          /\ pc = "Stopped" => (stdinClosed /\ stdin = <<>>)
  /\ \A k \in 1..Len(log) :
       ((\E j \in 1..(k - 1) : StepRaises(log[j])) /\ ~StepRaises(log[k]))
         => /\ ~log[k].raised
            /\ IF log[k].eng.cands = <<>> THEN Response(k) = None
               ELSE Response(k) = FiveFields(log[k].eng.cands[1])

\* C6 witness: a normal response after a malformed line and an engine failure
C6_Witness ==
  \E j, k \in 1..Len(log) :
    /\ j < k
    /\ StepRaises(log[j])
    /\ ReturnsSome(log[k]) /\ Response(k) = FiveFields(log[k].eng.cands[1])

\* C7: when the read returns end of stream the loop exits with nothing
\* written for that read: at termination there are as many output lines as
\* lines read, nothing is left in the buffer, and the process ends with
\* success.
C7_CleanStopAtEof ==
  pc = "Stopped"
    => /\ line = EmptyStr
       /\ status = "success"
       /\ stdinClosed /\ stdin = <<>>
       /\ Len(log) = Len(sent)
       /\ NewlineCount(stdout) = Len(log)
       /\ Partial(stdout) = <<>>
       /\ outbuf = <<>>

\* C7 witness: stopped at end of stream after answering lines
C7_Witness == pc = "Stopped" /\ line = EmptyStr /\ Len(log) >= 1

\* C8 as stated: the bridge stops only because a read returned end of
\* stream; no failure while handling a request stops the loop.
C8_StopsOnlyAtEof ==
  pc = "Stopped" => (line = EmptyStr /\ stdinClosed /\ stdin = <<>> /\ status = "success")

\* C9: the text written for a response holds exactly one newline character,
\* its last character, whatever newlines the field values and messages hold.
C9_OneLinePerResponse ==
  \A k \in 1..Len(log) :
    /\ log[k].written # <<>>
    /\ NewlineCount(log[k].written) = 1
    /\ log[k].written[Len(log[k].written)] = "\n"

\* C9 witness: a docstring and an error message that hold newline characters
C9_Witness ==
  \E j, k \in 1..Len(log) :
    /\ ~log[j].raised /\ log[j].result.t = "dict"
    /\ \E i \in 1..Len(log[j].result.items[4][2].s) : log[j].result.items[4][2].s[i] = "\n"
    /\ log[k].raised
    /\ \E i \in 1..Len(log[k].eng.msg) : log[k].eng.msg[i] = "\n"

RECURSIVE AllWritten(_)
\* the texts the iterations of l wrote, one after the other
AllWritten(l) == IF l = <<>> THEN <<>> ELSE AllWritten(SubSeq(l, 1, Len(l) - 1)) \o l[Len(l)].written

\* C10: whenever the bridge is in readline, every response written so far has
\* been flushed: the buffer is empty and the caller can read all of it, after
\* a success and after an error alike.
C10_FlushedBeforeRead ==
  pc = "Reading" => (outbuf = <<>> /\ stdout = AllWritten(log))

\* C10 witness: in readline after an error response and a success response
C10_Witness ==
  /\ pc = "Reading"
  /\ Len(log) = 2
  /\ log[1].handled
  /\ ~log[2].handled
  /\ stdout # <<>>

\* one step of the state machine of C11
C11_Step ==
  /\ pc' = "Processing" /\ pc # "Processing"
       => /\ pc = "Reading"
          /\ stdin # <<>>
          /\ stdin' = Tail(stdin)
  /\ pc = "Processing" /\ pc' # "Processing"
       => /\ pc' = "Reading"
          /\ stdin' = stdin
  /\ pc' = "Stopped" /\ pc # "Stopped"
       => /\ pc = "Reading"
          /\ stdinClosed /\ stdin = <<>>
  /\ pc = "Stopped"
       => /\ pc' = "Stopped"
          /\ Len(stdin') >= Len(stdin)
          /\ UNCHANGED <<outbuf, stdout, log>>

\* C11 as stated: Reading is initial; Processing is entered only from Reading
\* with exactly one line consumed and always returns to Reading; Stopped is
\* entered only from Reading at end of stream; after Stopped nothing is read
\* and nothing is written.
C11_StateMachine == pc = "Reading" /\ [][C11_Step]_vars

\* what the iteration of line ln writes, and the calls it makes, when the
\* engine's outcome is eng and no iteration came before it
Alone(ln, eng) ==
  LET r == TryBody(ln, eng, [source |-> Unassigned, path |-> Unassigned, column |-> Unassigned])
  IN [calls |-> r.calls, written |-> Respond(r, <<>>, FALSE).written]

\* the value the text of line ln holds under key
Field(ln, key) == GetItem(JsonLoads(ln).val, key).val

\* C12: nothing is carried from one iteration to the next: what an iteration
\* writes and the calls it makes are those of its own line and the engine's
\* outcome alone, whatever lines came before; the engine is called with the
\* source, path, line and column of the line just read, never with a value a
\* former request left in the variables; and the caller reads that text as
\* the response to that line.
C12_NothingCarriedOver ==
  \A k \in 1..Len(log) :
    \E alone \in {Alone(log[k].line, log[k].eng)} :
      /\ log[k].written = alone.written
      /\ log[k].calls = alone.calls
      /\ Len(log[k].calls) >= 1
           => log[k].calls[1].args = <<Field(log[k].line, "source"), Field(log[k].line, "path")>>
      /\ Len(log[k].calls) >= 2
           => log[k].calls[2].args = <<Field(log[k].line, "line"), Field(log[k].line, "column")>>
      /\ k <= Len(OutputLines(stdout))
      /\ OutputLines(stdout)[k] \o <<"\n">> = alone.written

\* C12 witness: a request answered by the engine right after a request of
\* other values that failed half-way through the extraction of its fields
C12_Witness ==
  /\ Len(log) = 2
  /\ log[1].line = Json(Request(OtherValues, {"source", "path", "line"}))
  /\ log[1].raised
  /\ log[2].line = Json(Request(FieldValues, {"source", "path", "line", "column"}))
  /\ Len(log[2].calls) = 2
  /\ ~log[2].raised
  /\ names = [source |-> FieldValues.source, path |-> FieldValues.path,
              column |-> FieldValues.column]

\* C17 as stated: a request that has all four fields and whose position is
\* out of range or whose fields are not well-typed is answered with an error
\* object, never with five fields or null.
C17_InvalidRequestGivesError ==
  \A k \in 1..Len(log) :
    log[k].line \in IllTypedLines \cup OutOfRangeLines => IsError(Response(k))

\* the calls of the iteration of e to the engine's operation f
CallsTo(e, f) == SelectSeq(e.calls, LAMBDA c : c.f = f)

\* C13: no retry.  For each line read, jedi.Script and infer are each called
\* at most once; an iteration that failed wrote one error line and nothing
\* else; that line is the response in the slot of its own request; and it is
\* with the caller before the next line is read: while a line is in
\* processing, and while the bridge waits in readline, every earlier
\* iteration has its one line in stdout.
C13_NoRetry ==
  /\ \A k \in 1..Len(log) :
       /\ Len(CallsTo(log[k], "Script")) <= 1
       /\ Len(CallsTo(log[k], "infer")) <= 1
       /\ Len(log[k].calls) <= 2
       /\ log[k].raised
            => /\ log[k].handled
               /\ NewlineCount(log[k].written) = 1
               /\ IsError(Decode(OutputLines(log[k].written)[1]))
               /\ IsError(Response(k))
  /\ pc \in {"Processing", "Reading"}
       => /\ NewlineCount(stdout) = Len(log)
          /\ outbuf = <<>>

\* C13 witness: a line is in processing after a request whose infer call
\* raised and was reported
C13_Witness ==
  /\ pc = "Processing"
  /\ Len(log) = 1
  /\ log[1].eng = InferRaises
  /\ Len(CallsTo(log[1], "infer")) = 1
  /\ IsError(Response(1))
  /\ NewlineCount(stdout) = 1

\* C19: a blank line is not the end of the stream.  Its iteration fails in
\* json.loads before any call to the engine and writes exactly one error
\* line, which the caller reads as the response to it; the loop does not
\* stop on it: the bridge is stopped only after a read that returned no
\* character, with the stream closed and every line sent, blank ones
\* included, answered.
C19_BlankLineIsARequest ==
  /\ \A k \in 1..Len(log) :
       log[k].line = Blank
         => /\ log[k].raised /\ log[k].handled
            /\ log[k].calls = <<>>
            /\ NewlineCount(log[k].written) = 1
            /\ IsError(Response(k))
  /\ pc = "Processing" => line # EmptyStr
  /\ pc = "Stopped"
       => /\ line = EmptyStr
          /\ stdinClosed /\ stdin = <<>>
          /\ Len(log) = Len(sent)
          /\ NewlineCount(stdout) = Len(sent)

\* C19 witness: a blank line was answered with an error and the line sent
\* after it was read and answered by the engine
C19_Witness ==
  /\ Len(log) = 2
  /\ log[1].line = Blank
  /\ IsError(Response(1))
  /\ log[2].line \in WellFormedLines
  /\ ~log[2].raised
  /\ Len(OutputLines(stdout)) = 2

\* C14: stdin closed while a request is being processed takes effect only
\* at a later read.  With every closure made during processing: the request
\* in flight is not dropped (it is still the line being processed, or it has
\* its own response among those written); when the bridge is back in
\* readline the response is written and flushed; and the bridge is stopped
\* only by a read that found the stream closed and empty, with every line
\* sent answered by one flushed line.
C14_CloseTakesEffectAtNextRead ==
  stdinClosed
    => /\ Len(log) + Len(stdin) + (IF pc = "Processing" THEN 1 ELSE 0) = Len(sent)
       /\ Len(sent) >= 1
       /\ pc \in {"Reading", "Stopped"}
            => /\ Len(log) >= 1
               /\ NewlineCount(stdout) = Len(log)
               /\ Partial(stdout) = <<>>
               /\ outbuf = <<>>
               /\ \A k \in 1..Len(log) : OutputLines(stdout)[k] \o <<"\n">> = log[k].written
       /\ pc = "Stopped"
            => /\ stdin = <<>>
               /\ line = EmptyStr
               /\ status = "success"
               /\ Len(log) = Len(sent)

\* C14 witness: stdin was closed during the processing of the only request,
\* whose five-field response is with the caller, and the bridge has stopped
C14_Witness ==
  /\ stdinClosed
  /\ pc = "Stopped"
  /\ Len(sent) = 1
  /\ Len(log) = 1
  /\ ReturnsSome(log[1]) /\ ~log[1].raised
  /\ Response(1) = FiveFields(log[1].eng.cands[1])

\* C15: termination.  Once the caller has closed stdin (it has then sent
\* finitely many lines), and with every engine call returning or raising, the
\* bridge eventually is stopped with exactly as many response lines written
\* as lines were sent, none of them partial; and once stopped it stays
\* stopped and writes nothing more.
C15_Terminates ==
  /\ stdinClosed ~> (/\ pc = "Stopped"
                     /\ NewlineCount(stdout) = Len(sent)
                     /\ Partial(stdout) = <<>>
                     /\ outbuf = <<>>)
  /\ [][pc = "Stopped" => UNCHANGED <<pc, stdout, outbuf, log>>]_vars

\* C15 witness: stopped after the stream was closed, with the two lines sent
\* answered, one by an error and one by the engine
C15_Witness ==
  /\ stdinClosed
  /\ pc = "Stopped"
  /\ Len(sent) = 2
  /\ NewlineCount(stdout) = 2
  /\ \E j, k \in 1..2 : log[j].raised /\ ~log[k].raised

\* the caller has written a request and has not yet a complete response line
\* to read for it
CallerWaits == NewlineCount(stdout) < Len(sent)

\* the bridge is in readline with nothing to read
BridgeWaits == pc = "Reading" /\ stdin = <<>>

\* C18: with a synchronous caller and engine calls that return or raise, the
\* caller never waits for a response while the bridge waits for input or has
\* stopped: whenever a response is owed, the request is still queued or in
\* processing.
C18_NoMutualWait ==
  /\ ~(CallerWaits /\ BridgeWaits)
  /\ ~(CallerWaits /\ pc = "Stopped")
  /\ Len(sent) - NewlineCount(stdout) <= 1

\* C18 witness: the caller, answered once, waits for its second response
\* while the bridge processes the second request
C18_Witness ==
  /\ Len(sent) = 2
  /\ NewlineCount(stdout) = 1
  /\ CallerWaits
  /\ pc = "Processing"
  /\ stdin = <<>>

\* C20: text without a line terminator, followed by the closure of stdin, is
\* still one request.  It is not read before the closure (readline waits for
\* the terminator or the end of the stream); once the stream is closed it is
\* read and handled as the same text with a terminator would be, its one
\* complete response line is written, and the bridge stops only at the read
\* after it, with every line sent answered.
C20_FinalPartialLineAnswered ==
  /\ Len(log) + Len(stdin) + (IF pc = "Processing" THEN 1 ELSE 0) = Len(sent)
  /\ partial /\ ~stdinClosed => stdin # <<>> /\ stdin[Len(stdin)] = sent[Len(sent)]
  /\ \A k \in 1..Len(log) :
       /\ log[k].line = sent[k]
       /\ log[k].written = Alone(sent[k], log[k].eng).written
       /\ NewlineCount(log[k].written) = 1
  /\ pc \in {"Reading", "Stopped"}
       => /\ NewlineCount(stdout) = Len(log)
          /\ Partial(stdout) = <<>>
          /\ stdout = AllWritten(log)
  /\ pc = "Stopped"
       => /\ line = EmptyStr
          /\ stdinClosed /\ stdin = <<>>
          /\ Len(log) = Len(sent)

\* C20 witness: the stream was closed after a second line without a
\* terminator; that line got its five-field response and the bridge stopped
C20_Witness ==
  /\ partial
  /\ stdinClosed
  /\ pc = "Stopped"
  /\ Len(sent) = 2
  /\ Len(log) = 2
  /\ ReturnsSome(log[2]) /\ ~log[2].raised
  /\ Response(2) = FiveFields(log[2].eng.cands[1])

\* the iteration of e met an I/O failure: its read raised, or the write or
\* flush of its response raised (the except clause ran although the try body
\* had computed a response, or the except clause itself was left)
IoFailure(e) ==
  \/ e.line = Undecodable
  \/ e.handled /\ ~e.raised
  \/ e.escaped

\* C16 as stated: an iteration whose read, write or flush raised answers
\* with an error object the caller can read, and the loop goes on: the
\* exception does not leave the loop.
C16_IoFailureGivesError ==
  /\ \A k \in 1..Len(log) :
       IoFailure(log[k])
         => /\ ~log[k].escaped
            /\ \E j \in 1..Len(OutputLines(stdout)) :
                 OutputLines(stdout)[j] \o <<"\n">> = ErrorLine(BrokenPipe)
                   \/ OutputLines(stdout)[j] \o <<"\n">> = log[k].written
  /\ status # "error"

====
